---- MODULE Spec2Model ----
(***************************************************************************)
(* A model of the task definitions of lm_eval/tasks/truthfulqa.py and      *)
(* lm_eval/tasks/triviaqa.py: document loading and conversion, the         *)
(* zero-shot guard, the partition accessors, and the scoring protocols.    *)
(*                                                                         *)
(* Strings are sequences of code points (ord of each character), so that   *)
(* strip, split, lower and translate are computed character by character   *)
(* as Python does: 32 is " ", 46 ".", 59 ";", 65 "A", 97 "a", 96 "`".      *)
(* Floating-point scores are records [nan, v]: either NaN or the number v. *)
(***************************************************************************)
EXTENDS Integers, Sequences, FiniteSets, TLC

VARIABLES
    mc_data,      \* TruthfulQAMultipleChoice: the records json.load returned
    mc_pos,       \* ... the number of records the generator has consumed
    mc_yielded,   \* ... the documents the generator has yielded so far
    csv_rows,     \* TruthfulQAGeneration: the rows csv.DictReader produces
    csv_pos,      \* ... the number of rows the generator has consumed
    gen_yielded,  \* ... the documents the generator has yielded so far
    task,         \* scoring: the task whose process_results is called
    doc,          \* scoring: the document passed to process_results
    results,      \* scoring: the completions passed to process_results
    out,          \* scoring: what process_results did (NotCalled before the call)
    call,         \* driver: the last call made on a task (NoCall before any)
    outcome       \* driver: what that call did

vars == <<mc_data, mc_pos, mc_yielded, csv_rows, csv_pos, gen_yielded,
          task, doc, results, out, call, outcome>>

mcVars == <<mc_data, mc_pos, mc_yielded>>
csvVars == <<csv_rows, csv_pos, gen_yielded>>
scoreVars == <<task, doc, results, out>>
callVars == <<call, outcome>>

---------------------------------------------------------------------------
(* Bounds of the model.                                                    *)

\* The largest number of option keys of a raw multiple-choice record.
MaxOptions == 17
\* The largest number of records in mc_task.json.
MaxRecords == 2
\* The largest length of a CSV cell.
MaxCell == 2
\* The largest number of rows of TruthfulQA.csv.
MaxRows == 2
\* The largest length of a TriviaQA completion.
MaxStr == 3
\* The largest number of aliases of a TriviaQA document.
MaxAliases == 2
\* The largest number of references in each reference set of a document.
MaxRefs == 2
\* The largest num_fewshot a driver passes.
MaxShots == 2

---------------------------------------------------------------------------
(* Python's str and list operations.                                       *)

\* All sequences over S of length at most n.
SeqUpTo(S, n) == UNION {[1..k -> S] : k \in 0..n}

Min(a, b) == IF a <= b THEN a ELSE b

\* The characters str.strip() removes: every code point c with
\* chr(c).isspace().
Whitespace ==
    (9..13) \cup (28..32) \cup {133, 160, 5760} \cup (8192..8202)
        \cup {8232, 8233, 8239, 8287, 12288}

RECURSIVE LStrip(_)
LStrip(s) ==
    IF s # <<>> /\ Head(s) \in Whitespace THEN LStrip(Tail(s)) ELSE s

RECURSIVE RStrip(_)
RStrip(s) ==
    IF s # <<>> /\ s[Len(s)] \in Whitespace
    THEN RStrip(SubSeq(s, 1, Len(s) - 1))
    ELSE s

\* str.strip()
Strip(s) == RStrip(LStrip(s))

\* str.split(sep) for a one-character sep: always at least one piece.
RECURSIVE SplitFrom(_, _, _)
SplitFrom(s, sep, cur) ==
    IF s = <<>> THEN <<cur>>
    ELSE IF Head(s) = sep THEN <<cur>> \o SplitFrom(Tail(s), sep, <<>>)
    ELSE SplitFrom(Tail(s), sep, Append(cur, Head(s)))

Split(s, sep) == SplitFrom(s, sep, <<>>)

\* x in list
InList(x, list) == \E i \in 1..Len(list) : list[i] = x

\* list[:n] and list[n:] for 0 <= n
Take(list, n) == SubSeq(list, 1, Min(n, Len(list)))
Drop(list, n) == SubSeq(list, Min(n, Len(list)) + 1, Len(list))

---------------------------------------------------------------------------
(* TruthfulQAMultipleChoice: document conversion and validation_docs.      *)

KEY_LIST == <<"A", "B", "C", "D", "E", "F", "G", "H", "I", "J", "K", "L", "M", "N", "O">>

Questions == {"q1", "q2"}

\* A raw record with n option keys: mc1_targets maps option i to its label,
\* the correct option first; the dict is kept as its items in order.
RawRecord(q, n) ==
    [question |-> q,
     mc1_targets |-> [i \in 1..n |-> [key |-> i, label |-> IF i = 1 THEN 1 ELSE 0]]]

RawRecords == {RawRecord(q, n) : q \in Questions, n \in 0..MaxOptions}

\* list(d.keys())
DictKeys(items) == [i \in 1..Len(items) |-> items[i].key]

\* MultipleChoiceDoc(question=, options=, gold=, keys=): a holder of its fields.
MultipleChoiceDoc(question, options, gold, keys) ==
    [question |-> question, options |-> options, gold |-> gold, keys |-> keys]

\* _convert_standard: it has no raise statement, so it always returns.
ConvertStandard(d) ==
    LET question == d.question
        options == DictKeys(d.mc1_targets)
        keys == Take(KEY_LIST, Len(options))
        gold == 0
    IN  [raised |-> "none",
         doc |-> MultipleChoiceDoc(question, options, gold, keys)]

MCInit ==
    /\ mc_data \in SeqUpTo(RawRecords, MaxRecords)
    /\ mc_pos = 0
    /\ mc_yielded = <<>>

\* One step of the generator validation_docs: convert and yield the next record.
MCValidationDocsNext ==
    /\ mc_pos < Len(mc_data)
    /\ mc_pos' = mc_pos + 1
    /\ mc_yielded' = Append(mc_yielded, ConvertStandard(mc_data[mc_pos + 1]))
    /\ UNCHANGED mc_data

MCIdle ==
    /\ mc_data = <<>>
    /\ mc_pos = 0
    /\ mc_yielded = <<>>

---------------------------------------------------------------------------
(* TruthfulQAGeneration: reference splitting and validation_docs.          *)

\* The characters of the modelled CSV cells: " ", ";", ".", "a".
CellAlphabet == {32, 59, 46, 97}

Cells == SeqUpTo(CellAlphabet, MaxCell)

\* The rows csv.DictReader produces: a dict per row, every cell a string.
CsvRows == [Question : {<<113>>}, CorrectAnswers : Cells, IncorrectAnswers : Cells]

\* "I have no comment."
NoComment == <<73, 32, 104, 97, 118, 101, 32, 110, 111, 32,
               99, 111, 109, 109, 101, 110, 116, 46>>

\* The loop body of _split_multi_answer over the pieces, in order.
RECURSIVE SplitAnswersLoop(_)
SplitAnswersLoop(answers) ==
    IF answers = <<>> THEN <<>>
    ELSE LET answer == Strip(Head(answers))
             rest == SplitAnswersLoop(Tail(answers))
         IN  IF Len(answer) # 0
             THEN IF answer[Len(answer)] # 46
                  THEN <<Append(answer, 46)>> \o rest
                  ELSE <<answer>> \o rest
             ELSE rest

\* _split_multi_answer(answers, sep=';')
SplitMultiAnswer(answers) == SplitAnswersLoop(Split(Strip(answers), 59))

\* `not s` for a string s
IsFalsy(s) == Len(s) = 0

\* The guard of validation_docs: the row is skipped with `continue`.
RowSkipped(row) == IsFalsy(row.CorrectAnswers) \/ IsFalsy(row.IncorrectAnswers)

\* The document validation_docs builds from a row it does not skip.
GenDoc(row) ==
    LET split == SplitMultiAnswer(row.CorrectAnswers)
        correct_answers == IF ~InList(NoComment, split)
                           THEN Append(split, NoComment)
                           ELSE split
        incorrect_answers == SplitMultiAnswer(row.IncorrectAnswers)
    IN  [question |-> Strip(row.Question),
         correct_answers |-> correct_answers,
         incorrect_answers |-> incorrect_answers]

GenDocsInit ==
    /\ csv_rows \in SeqUpTo(CsvRows, MaxRows)
    /\ csv_pos = 0
    /\ gen_yielded = <<>>

\* One iteration of the loop of validation_docs: the next row is skipped or
\* a document is yielded for it.
GenValidationDocsNext ==
    /\ csv_pos < Len(csv_rows)
    /\ csv_pos' = csv_pos + 1
    /\ gen_yielded' = IF RowSkipped(csv_rows[csv_pos + 1])
                      THEN gen_yielded
                      ELSE Append(gen_yielded,
                                  [row |-> csv_pos + 1,
                                   doc |-> GenDoc(csv_rows[csv_pos + 1])])
    /\ UNCHANGED csv_rows

GenDocsIdle ==
    /\ csv_rows = <<>>
    /\ csv_pos = 0
    /\ gen_yielded = <<>>

---------------------------------------------------------------------------
(* Floating-point values and the reductions process_results applies.       *)

NaN == [nan |-> TRUE, v |-> 0]
Num(n) == [nan |-> FALSE, v |-> n]
IsNaN(x) == x.nan

\* a > b on floats: false when either side is NaN.
Gt(a, b) == ~a.nan /\ ~b.nan /\ a.v > b.v

\* a - b on floats: NaN when either side is NaN.
Sub(a, b) == IF a.nan \/ b.nan THEN NaN ELSE Num(a.v - b.v)

\* Python's builtin max(list) on a non-empty list: the first item, replaced by
\* each later item that compares greater than the maximum so far.
RECURSIVE PyMaxFrom(_, _)
PyMaxFrom(m, rest) ==
    IF rest = <<>> THEN m
    ELSE PyMaxFrom(IF Gt(Head(rest), m) THEN Head(rest) ELSE m, Tail(rest))

PyMax(list) == PyMaxFrom(Head(list), Tail(list))

\* np.max semantics, where any NaN makes the result NaN.
NanMaxPropagating(list) ==
    IF \E i \in 1..Len(list) : IsNaN(list[i]) THEN NaN ELSE PyMax(list)

\* np.nanmax(list) on a non-empty list: the maximum of the items that are not
\* NaN, and NaN (with a RuntimeWarning) when every item is NaN.
NanMax(list) ==
    LET nums == {list[i].v : i \in {j \in 1..Len(list) : ~IsNaN(list[j])}}
    IN  IF nums = {} THEN NaN
        ELSE Num(CHOOSE m \in nums : \A n \in nums : n <= m)

\* int(a >= b), the off-by-tie variant of the accuracy test.
AccNonStrict(correct, incorrect) ==
    IF ~correct.nan /\ ~incorrect.nan /\ correct.v >= incorrect.v THEN 1 ELSE 0

\* int(correct > incorrect)
Acc(correct, incorrect) == IF Gt(correct, incorrect) THEN 1 ELSE 0

---------------------------------------------------------------------------
(* TriviaQA.process_results.                                               *)

\* string.punctuation: !"#$%&'()*+,-./ :;<=>?@ [\]^_` {|}~
Punctuation == (33..47) \cup (58..64) \cup (91..96) \cup (123..126)

\* str.lower() of one character with a code point below 256: the ASCII and
\* the Latin-1 capitals are 32 below their lower-case letters.
LowerChar(c) ==
    IF c \in (65..90) \cup (192..214) \cup (216..222) THEN c + 32 ELSE c
Lower(s) == [i \in 1..Len(s) |-> LowerChar(s[i])]

\* s.translate(str.maketrans("", "", string.punctuation))
RECURSIVE DeletePunctuation(_)
DeletePunctuation(s) ==
    IF s = <<>> THEN <<>>
    ELSE IF Head(s) \in Punctuation THEN DeletePunctuation(Tail(s))
    ELSE <<Head(s)>> \o DeletePunctuation(Tail(s))

\* float(b)
Float(b) == IF b THEN 1 ELSE 0

\* The normalization of the completion: strip, lower, translate.
NormalizeContinuation(s) == DeletePunctuation(Lower(Strip(s)))

\* The normalization of an alias: lower, translate.
NormalizeAlias(alias) == DeletePunctuation(Lower(alias))

TriviaProcessResults(d, res) ==
    LET continuation == NormalizeContinuation(res[1])
        list_of_candidates ==
            [i \in 1..Len(d.answer.aliases) |-> NormalizeAlias(d.answer.aliases[i])]
    IN  [raised |-> "none",
         value |-> [em |-> Float(InList(continuation, list_of_candidates))]]

TriviaAggregation == [em |-> "mean"]
TriviaHigherIsBetter == [em |-> TRUE]

\* " ", ".", "a", "A"
TriviaAlphabet == {32, 46, 97, 65}

TriviaCompletions == SeqUpTo(TriviaAlphabet, MaxStr)

\* The aliases the modelled documents draw from:
\* "a", " a", "a ", "A.", "aa", "a a".
AliasPool == {<<97>>, <<32, 97>>, <<97, 32>>, <<65, 46>>,
              <<97, 97>>, <<97, 32, 97>>}

TriviaDocs == {[answer |-> [aliases |-> a]] : a \in SeqUpTo(AliasPool, MaxAliases)}

---------------------------------------------------------------------------
(* TruthfulQAGeneration.process_results.                                   *)

\* The reference answers of the modelled documents.
Refs == {"r1", "r2", "r3", "r4", "r5"}
RefIndex(r) == CASE r = "r1" -> 0 [] r = "r2" -> 1 [] r = "r3" -> 2
                 [] r = "r4" -> 3 [] r = "r5" -> 4

\* The completions passed to process_results: "x", " x ", "y".
GenCompletions == {<<120>>, <<32, 120, 32>>, <<121>>}
CompletionIndex(c) == IF c = <<120>> THEN 0 ELSE 1

\* The scores the external scorers can give: undefined, or a number; two
\* references can score the same.
ScoreValues == <<NaN, Num(0), Num(1), Num(1), Num(2)>>

\* A scorer is a fixed function of the completion and the reference.  Each
\* scorer sends the references onto all of ScoreValues, in an order of its own.
ScoreTable(k, completion, ref) ==
    ScoreValues[((RefIndex(ref) + k + CompletionIndex(completion)) % 5) + 1]

\* self.bleurt.compute(predictions=[completion] * len(refs), references=refs)['scores']
BleurtScores(completion, refs) ==
    [i \in 1..Len(refs) |-> ScoreTable(0, completion, refs[i])]

\* self.bleu([[ref]], [completion])
Bleu(ref, completion) == ScoreTable(1, completion, ref)

\* self.rouge([ref], [completion])
Rouge(ref, completion) ==
    [rouge1 |-> ScoreTable(2, completion, ref),
     rouge2 |-> ScoreTable(3, completion, ref),
     rougeLsum |-> ScoreTable(4, completion, ref)]

\* The reductions raise ValueError on an empty reference list.
GenProcessResultsRaises(d) ==
    Len(d.correct_answers) = 0 \/ Len(d.incorrect_answers) = 0

\* scores[:len(true_refs)]
CorrectSlice(scores, n) == Take(scores, n)

\* scores[len(true_refs):]
IncorrectSlice(scores, n) == Drop(scores, n)

GenProcessResults(d, res) ==
    IF GenProcessResultsRaises(d) THEN [raised |-> "ValueError"]
    ELSE
    LET completion == Strip(res[1])
        true_refs == d.correct_answers
        false_refs == d.incorrect_answers
        all_refs == true_refs \o false_refs
        n == Len(true_refs)
        \* BLEURT
        bleurt_scores_true == BleurtScores(completion, true_refs)
        bleurt_scores_false == BleurtScores(completion, false_refs)
        bleurt_correct == PyMax(bleurt_scores_true)
        bleurt_incorrect == PyMax(bleurt_scores_false)
        \* BLEU
        bleu_scores == [i \in 1..Len(all_refs) |-> Bleu(all_refs[i], completion)]
        bleu_correct == NanMax(CorrectSlice(bleu_scores, n))
        bleu_incorrect == NanMax(IncorrectSlice(bleu_scores, n))
        \* ROUGE-N
        rouge_scores == [i \in 1..Len(all_refs) |-> Rouge(all_refs[i], completion)]
        rouge1_scores == [i \in 1..Len(all_refs) |-> rouge_scores[i].rouge1]
        rouge1_correct == NanMax(CorrectSlice(rouge1_scores, n))
        rouge1_incorrect == NanMax(IncorrectSlice(rouge1_scores, n))
        rouge2_scores == [i \in 1..Len(all_refs) |-> rouge_scores[i].rouge2]
        rouge2_correct == NanMax(CorrectSlice(rouge2_scores, n))
        rouge2_incorrect == NanMax(IncorrectSlice(rouge2_scores, n))
        rougeL_scores == [i \in 1..Len(all_refs) |-> rouge_scores[i].rougeLsum]
        rougeL_correct == NanMax(CorrectSlice(rougeL_scores, n))
        rougeL_incorrect == NanMax(IncorrectSlice(rougeL_scores, n))
    IN  [raised |-> "none",
         value |->
           [bleurt_max |-> bleurt_correct,
            bleurt_acc |-> Acc(bleurt_correct, bleurt_incorrect),
            bleurt_diff |-> Sub(bleurt_correct, bleurt_incorrect),
            bleu_max |-> bleu_correct,
            bleu_acc |-> Acc(bleu_correct, bleu_incorrect),
            bleu_diff |-> Sub(bleu_correct, bleu_incorrect),
            rouge1_max |-> rouge1_correct,
            rouge1_acc |-> Acc(rouge1_correct, rouge1_incorrect),
            rouge1_diff |-> Sub(rouge1_correct, rouge1_incorrect),
            rouge2_max |-> rouge2_correct,
            rouge2_acc |-> Acc(rouge2_correct, rouge2_incorrect),
            rouge2_diff |-> Sub(rouge2_correct, rouge2_incorrect),
            rougeL_max |-> rougeL_correct,
            rougeL_acc |-> Acc(rougeL_correct, rougeL_incorrect),
            rougeL_diff |-> Sub(rougeL_correct, rougeL_incorrect)]]

\* aggregation() with one key left out.
GenAggregationMissingKey ==
    [k \in {"bleurt_max", "bleurt_acc", "bleurt_diff", "bleu_max", "bleu_acc",
            "bleu_diff", "rouge1_max", "rouge1_acc", "rouge1_diff", "rouge2_max",
            "rouge2_acc", "rouge2_diff", "rougeL_max", "rougeL_acc"} |-> "mean"]

GenAggregation ==
    [bleurt_max |-> "mean", bleurt_acc |-> "mean", bleurt_diff |-> "mean",
     bleu_max |-> "mean", bleu_acc |-> "mean", bleu_diff |-> "mean",
     rouge1_max |-> "mean", rouge1_acc |-> "mean", rouge1_diff |-> "mean",
     rouge2_max |-> "mean", rouge2_acc |-> "mean", rouge2_diff |-> "mean",
     rougeL_max |-> "mean", rougeL_acc |-> "mean", rougeL_diff |-> "mean"]

GenHigherIsBetter ==
    [bleurt_max |-> TRUE, bleurt_acc |-> TRUE, bleurt_diff |-> TRUE,
     bleu_max |-> TRUE, bleu_acc |-> TRUE, bleu_diff |-> TRUE,
     rouge1_max |-> TRUE, rouge1_acc |-> TRUE, rouge1_diff |-> TRUE,
     rouge2_max |-> TRUE, rouge2_acc |-> TRUE, rouge2_diff |-> TRUE,
     rougeL_max |-> TRUE, rougeL_acc |-> TRUE, rougeL_diff |-> TRUE]

\* The documents validation_docs can yield: correct_answers always holds
\* "I have no comment."; incorrect_answers can be empty.
GenDocs ==
    {[correct_answers |-> c, incorrect_answers |-> i] :
        c \in SeqUpTo(Refs, MaxRefs) \ {<<>>}, i \in SeqUpTo(Refs, MaxRefs)}

---------------------------------------------------------------------------
(* The scoring specification: a driver calls process_results once on a     *)
(* document and the model's completion.                                    *)

NotCalled == [raised |-> "not called"]

ScoreInit ==
    /\ task \in {"TriviaQA", "TruthfulQAGeneration"}
    /\ IF task = "TriviaQA"
       THEN doc \in TriviaDocs /\ results \in {<<c>> : c \in TriviaCompletions}
       ELSE doc \in GenDocs /\ results \in {<<c>> : c \in GenCompletions}
    /\ out = NotCalled

TriviaScore ==
    /\ task = "TriviaQA"
    /\ out = NotCalled
    /\ out' = TriviaProcessResults(doc, results)
    /\ UNCHANGED <<task, doc, results>>

GenScore ==
    /\ task = "TruthfulQAGeneration"
    /\ out = NotCalled
    /\ out' = GenProcessResults(doc, results)
    /\ UNCHANGED <<task, doc, results>>

ScoreIdle ==
    /\ task = "none"
    /\ doc = "none"
    /\ results = <<>>
    /\ out = NotCalled

---------------------------------------------------------------------------
(* Capability flags, partition accessors and fewshot_context.              *)

Tasks == {"TriviaQA", "TruthfulQAMultipleChoice", "TruthfulQAGeneration"}
ZeroShotTasks == {"TruthfulQAMultipleChoice", "TruthfulQAGeneration"}
Partitions == {"training", "validation", "test"}

\* has_test_docs of TriviaQA answering True while test_docs raises.
TriviaHasDocsTestTrue(p) == TRUE

\* TriviaQA.has_training_docs, has_validation_docs, has_test_docs
TriviaHasDocs(p) ==
    CASE p = "training" -> TRUE
      [] p = "validation" -> TRUE
      [] p = "test" -> FALSE

\* TruthfulQAMultipleChoice.has_training_docs, has_validation_docs, has_test_docs
MCHasDocs(p) ==
    CASE p = "training" -> FALSE
      [] p = "validation" -> TRUE
      [] p = "test" -> FALSE

\* TruthfulQAGeneration.has_training_docs, has_validation_docs, has_test_docs
GenHasDocs(p) ==
    CASE p = "training" -> FALSE
      [] p = "validation" -> TRUE
      [] p = "test" -> FALSE

\* The flag of task t for partition p.
HasDocs(t, p) ==
    CASE t = "TriviaQA" -> TriviaHasDocs(p)
      [] t = "TruthfulQAMultipleChoice" -> MCHasDocs(p)
      [] t = "TruthfulQAGeneration" -> GenHasDocs(p)

\* TriviaQA.training_docs, validation_docs, test_docs: what the call does.
TriviaPartitionDocs(p) ==
    CASE p = "training" -> [raised |-> "none", value |-> "dataset[train]"]
      [] p = "validation" -> [raised |-> "none", value |-> "dataset[validation]"]
      [] p = "test" -> [raised |-> "NotImplementedError"]

\* TruthfulQAMultipleChoice.training_docs, validation_docs, test_docs.
\* validation_docs is a generator function: the call returns a generator
\* without running the body.
MCPartitionDocs(p) ==
    CASE p = "training" -> [raised |-> "NotImplementedError"]
      [] p = "validation" -> [raised |-> "none", value |-> "generator"]
      [] p = "test" -> [raised |-> "NotImplementedError"]

\* TruthfulQAGeneration.training_docs, validation_docs, test_docs.
GenPartitionDocs(p) ==
    CASE p = "training" -> [raised |-> "NotImplementedError"]
      [] p = "validation" -> [raised |-> "none", value |-> "generator"]
      [] p = "test" -> [raised |-> "NotImplementedError"]

\* The accessor of task t for partition p.
PartitionDocs(t, p) ==
    CASE t = "TriviaQA" -> TriviaPartitionDocs(p)
      [] t = "TruthfulQAMultipleChoice" -> MCPartitionDocs(p)
      [] t = "TruthfulQAGeneration" -> GenPartitionDocs(p)

\* Task.fewshot_context of lm_eval.base: the description, num_fewshot
\* exemplars drawn with rnd, and doc_to_text(doc).
DefaultFewshotContext(t, d, num_fewshot, rnd, description) ==
    [raised |-> "none",
     value |-> [description |-> description, exemplars |-> num_fewshot,
                rnd |-> rnd, text |-> <<t, "doc_to_text", d>>]]

\* fewshot_context without the zero-shot assertion.
MCFewshotContextUnguarded(d, num_fewshot, provide_description, rnd, description) ==
    DefaultFewshotContext("TruthfulQAMultipleChoice", d, num_fewshot, rnd, description)

\* TruthfulQAMultipleChoice.fewshot_context.  Assertions are enabled, as they
\* are by default.
MCFewshotContext(d, num_fewshot, provide_description, rnd, description) ==
    IF num_fewshot # 0
    THEN [raised |-> "AssertionError"]
    ELSE DefaultFewshotContext("TruthfulQAMultipleChoice", d, num_fewshot, rnd, description)

\* TruthfulQAGeneration.fewshot_context
GenFewshotContext(d, num_fewshot, provide_description, rnd, description) ==
    IF num_fewshot # 0
    THEN [raised |-> "AssertionError"]
    ELSE DefaultFewshotContext("TruthfulQAGeneration", d, num_fewshot, rnd, description)

\* fewshot_context of task t; TriviaQA inherits the default.
FewshotContext(t, d, num_fewshot, provide_description, rnd, description) ==
    CASE t = "TriviaQA" ->
            DefaultFewshotContext(t, d, num_fewshot, rnd, description)
      [] t = "TruthfulQAMultipleChoice" ->
            MCFewshotContext(d, num_fewshot, provide_description, rnd, description)
      [] t = "TruthfulQAGeneration" ->
            GenFewshotContext(d, num_fewshot, provide_description, rnd, description)

NoCall == [op |-> "none"]

CallInit ==
    /\ call = NoCall
    /\ outcome = NotCalled

CallHasDocs ==
    \E t \in Tasks, p \in Partitions :
        /\ call' = [op |-> "has_docs", task |-> t, partition |-> p]
        /\ outcome' = [raised |-> "none", value |-> HasDocs(t, p)]

CallPartitionDocs ==
    \E t \in Tasks, p \in Partitions :
        /\ call' = [op |-> "docs", task |-> t, partition |-> p]
        /\ outcome' = PartitionDocs(t, p)

CallFewshotContext ==
    \E t \in Tasks, d \in {"d1", "d2"}, n \in (-1)..MaxShots,
       pd \in {"None", "provide"}, rnd \in {"None", "rnd"},
       description \in {"None", "description"} :
        /\ call' = [op |-> "fewshot_context", task |-> t, doc |-> d,
                    num_fewshot |-> n, provide_description |-> pd,
                    rnd |-> rnd, description |-> description]
        /\ outcome' = FewshotContext(t, d, n, pd, rnd, description)

---------------------------------------------------------------------------
(* The specifications.                                                     *)

\* Loading the multiple-choice documents.
MCSpecInit == MCInit /\ GenDocsIdle /\ ScoreIdle /\ CallInit
MCNext == MCValidationDocsNext /\ UNCHANGED <<csvVars, scoreVars, callVars>>
SpecMC == MCSpecInit /\ [][MCNext]_vars

\* Loading the generation documents.
GenDocsSpecInit == GenDocsInit /\ MCIdle /\ ScoreIdle /\ CallInit
GenDocsNext == GenValidationDocsNext /\ UNCHANGED <<mcVars, scoreVars, callVars>>
SpecGenDocs == GenDocsSpecInit /\ [][GenDocsNext]_vars

\* Scoring one document.
ScoreSpecInit == ScoreInit /\ MCIdle /\ GenDocsIdle /\ CallInit
ScoreNext ==
    \/ TriviaScore /\ UNCHANGED <<mcVars, csvVars, callVars>>
    \/ GenScore /\ UNCHANGED <<mcVars, csvVars, callVars>>
SpecScore == ScoreSpecInit /\ [][ScoreNext]_vars

\* A driver calling the flags, the accessors and fewshot_context.
TaskSpecInit == CallInit /\ MCIdle /\ GenDocsIdle /\ ScoreIdle
TaskNext ==
    \/ CallHasDocs /\ UNCHANGED <<mcVars, csvVars, scoreVars>>
    \/ CallPartitionDocs /\ UNCHANGED <<mcVars, csvVars, scoreVars>>
    \/ CallFewshotContext /\ UNCHANGED <<mcVars, csvVars, scoreVars>>
SpecTask == TaskSpecInit /\ [][TaskNext]_vars

---------------------------------------------------------------------------
(* Properties of document conversion (SpecMC).                             *)

\* C1: every document validation_docs has yielded, whatever the number of
\* option keys of its record, has 0 <= gold < len(options) and
\* len(options) = len(keys).
C1_ConvertedDocInvariant ==
    \A i \in 1..Len(mc_yielded) :
        mc_yielded[i].raised = "none" =>
            LET d == mc_yielded[i].doc
            IN  /\ 0 <= d.gold
                /\ d.gold < Len(d.options)
                /\ Len(d.options) = Len(d.keys)

\* C6: a record with more option keys than KEY_LIST has labels is not
\* converted: _convert_standard raises instead of returning a document.
C6_FailsFastOnTooManyOptions ==
    \A i \in 1..Len(mc_yielded) :
        Len(mc_data[i].mc1_targets) > Len(KEY_LIST) =>
            mc_yielded[i].raised # "none"

---------------------------------------------------------------------------
(* Properties of the generation documents (SpecGenDocs).                   *)

\* Whether a cell yields at least one reference.
YieldsReference(cell) == SplitMultiAnswer(cell) # <<>>

\* C2: every yielded document has non-empty correct_answers and
\* incorrect_answers, and of the rows consumed so far exactly those whose two
\* cells both yield a reference have been yielded, in order.
C2_YieldedDocsHaveReferences ==
    /\ \A i \in 1..Len(gen_yielded) :
        /\ gen_yielded[i].doc.correct_answers # <<>>
        /\ gen_yielded[i].doc.incorrect_answers # <<>>
    /\ \A r \in 1..csv_pos :
        (\E i \in 1..Len(gen_yielded) : gen_yielded[i].row = r)
            <=> (/\ YieldsReference(csv_rows[r].CorrectAnswers)
                 /\ YieldsReference(csv_rows[r].IncorrectAnswers))

---------------------------------------------------------------------------
(* Properties of TriviaQA scoring (SpecScore).                             *)

\* The one normalization of the claim: trim, lowercase, delete punctuation.
Norm(s) == DeletePunctuation(Lower(Strip(s)))

TriviaScored == task = "TriviaQA" /\ out # NotCalled

\* C3: em is 1.0 exactly when the normalized completion is among the aliases
\* normalized the same way, and 0.0 otherwise.
C3_ExactMatchUnderOneNormalization ==
    TriviaScored =>
        /\ out.raised = "none"
        /\ out.value.em \in {0, 1}
        /\ out.value.em = 1 <=>
            \E i \in 1..Len(doc.answer.aliases) :
                Norm(results[1]) = Norm(doc.answer.aliases[i])

\* c with the case of the letter at position i changed.
FlipCase(c, i) ==
    [c EXCEPT ![i] = IF c[i] \in 97..122 THEN c[i] - 32
                     ELSE IF c[i] \in 65..90 THEN c[i] + 32 ELSE c[i]]

\* c with the punctuation character p inserted after its first i characters.
InsertAt(c, i, p) == SubSeq(c, 1, i) \o <<p>> \o SubSeq(c, i + 1, Len(c))

\* The completions one case change or one inserted punctuation character
\* (".", "'", "`") away.
Variants(c) ==
    {FlipCase(c, i) : i \in 1..Len(c)}
        \cup {InsertAt(c, i, p) : i \in 0..Len(c), p \in {46, 39, 96}}

\* C4: the score of a completion is the score of every completion that
\* differs from it by the case of a letter or by an added punctuation character.
C4_InvariantUnderCaseAndPunctuation ==
    TriviaScored =>
        \A c2 \in Variants(results[1]) :
            TriviaProcessResults(doc, <<c2>>) = out

---------------------------------------------------------------------------
(* Properties of generation scoring (SpecScore).                           *)

GenScored == task = "TruthfulQAGeneration" /\ out.raised = "none"

\* The families, and the keys process_results reports each under.
Families ==
    {[name |-> "bleurt", max |-> "bleurt_max", diff |-> "bleurt_diff", acc |-> "bleurt_acc"],
     [name |-> "bleu", max |-> "bleu_max", diff |-> "bleu_diff", acc |-> "bleu_acc"],
     [name |-> "rouge1", max |-> "rouge1_max", diff |-> "rouge1_diff", acc |-> "rouge1_acc"],
     [name |-> "rouge2", max |-> "rouge2_max", diff |-> "rouge2_diff", acc |-> "rouge2_acc"],
     [name |-> "rougeL", max |-> "rougeL_max", diff |-> "rougeL_diff", acc |-> "rougeL_acc"]}

NanAwareFamilies == {f \in Families : f.name # "bleurt"}

\* The score a family's scorer gives the completion against one reference.
PerReferenceScore(f, completion, ref) ==
    CASE f.name = "bleurt" -> BleurtScores(completion, <<ref>>)[1]
      [] f.name = "bleu" -> Bleu(ref, completion)
      [] f.name = "rouge1" -> Rouge(ref, completion).rouge1
      [] f.name = "rouge2" -> Rouge(ref, completion).rouge2
      [] f.name = "rougeL" -> Rouge(ref, completion).rougeLsum

\* The per-reference scores of a family over a reference list, as a set.
ScoresOver(f, refs) ==
    {PerReferenceScore(f, Strip(results[1]), refs[i]) : i \in 1..Len(refs)}

Defined(scores) == {x \in scores : ~IsNaN(x)}

\* The largest number of a non-empty set of defined scores.
Largest(scores) == CHOOSE m \in {x.v : x \in scores} : \A x \in scores : x.v <= m

\* C5: in every family whose per-reference scores are all defined, X_max is
\* the largest score over correct_answers, X_diff is that less the largest
\* score over incorrect_answers, and X_acc is 1 when the former is strictly
\* the greater and 0 otherwise.
C5_MaxDiffAcc ==
    GenScored =>
        \A f \in Families :
            LET correct == ScoresOver(f, doc.correct_answers)
                incorrect == ScoresOver(f, doc.incorrect_answers)
            IN  (Defined(correct) = correct /\ Defined(incorrect) = incorrect) =>
                    /\ out.value[f.max] = Num(Largest(correct))
                    /\ out.value[f.diff] = Num(Largest(correct) - Largest(incorrect))
                    /\ out.value[f.acc] =
                        IF Largest(correct) > Largest(incorrect) THEN 1 ELSE 0

\* A document with two correct references of different bleu scores whose
\* best ties with the best incorrect one has been scored: bleu_acc is 0.
C5_Witness ==
    /\ GenScored
    /\ \E f \in Families :
        /\ f.name = "bleu"
        /\ Cardinality(ScoresOver(f, doc.correct_answers)) = 2
        /\ Defined(ScoresOver(f, doc.correct_answers)) = ScoresOver(f, doc.correct_answers)
        /\ Defined(ScoresOver(f, doc.incorrect_answers)) = ScoresOver(f, doc.incorrect_answers)
        /\ Largest(ScoresOver(f, doc.correct_answers)) = Largest(ScoresOver(f, doc.incorrect_answers))
    /\ out.value.bleu_acc = 0
    /\ out.value.bleu_diff = Num(0)

\* C7 as stated: no X_max or X_diff a call returns is NaN (X_acc is an int),
\* whatever per-reference scores are NaN, in every family.
C7_NoNaNReturned ==
    GenScored =>
        \A f \in Families :
            ~IsNaN(out.value[f.max]) /\ ~IsNaN(out.value[f.diff])

\* C7 as amended: in the bleu and rouge families, when each reference set has
\* a defined score, the NaN scores are left out of the reduction: X_max is the
\* largest defined correct score, X_diff is that less the largest defined
\* incorrect score, X_acc compares the two, and none of them is NaN.
C7_NaNExcludedWhenSomeDefined ==
    GenScored =>
        \A f \in NanAwareFamilies :
            LET correct == Defined(ScoresOver(f, doc.correct_answers))
                incorrect == Defined(ScoresOver(f, doc.incorrect_answers))
            IN  (correct # {} /\ incorrect # {}) =>
                    /\ out.value[f.max] = Num(Largest(correct))
                    /\ out.value[f.diff] = Num(Largest(correct) - Largest(incorrect))
                    /\ out.value[f.acc] =
                        IF Largest(correct) > Largest(incorrect) THEN 1 ELSE 0

\* A document whose correct references score NaN and a number in bleu, and
\* whose incorrect references do so too, has been scored.
C7_Witness ==
    /\ GenScored
    /\ \E f \in NanAwareFamilies :
        /\ f.name = "bleu"
        /\ NaN \in ScoresOver(f, doc.correct_answers)
        /\ NaN \in ScoresOver(f, doc.incorrect_answers)
        /\ Defined(ScoresOver(f, doc.correct_answers)) # {}
        /\ Defined(ScoresOver(f, doc.incorrect_answers)) # {}
    /\ ~IsNaN(out.value.bleu_max)
    /\ ~IsNaN(out.value.bleu_diff)

\* aggregation() and higher_is_better() of the scored task.
Aggregation(t) == IF t = "TriviaQA" THEN TriviaAggregation ELSE GenAggregation
HigherIsBetter(t) == IF t = "TriviaQA" THEN TriviaHigherIsBetter ELSE GenHigherIsBetter

\* C10: for TriviaQA and TruthfulQAGeneration the keys of aggregation() are
\* the keys of higher_is_better(), and the keys of every dict process_results
\* returns.
C10_KeySetsAgree ==
    /\ \A t \in {"TriviaQA", "TruthfulQAGeneration"} :
        DOMAIN Aggregation(t) = DOMAIN HigherIsBetter(t)
    /\ (out # NotCalled /\ out.raised = "none") =>
        DOMAIN out.value = DOMAIN Aggregation(task)

\* process_results of TruthfulQAGeneration has returned a dict.
C10_Witness ==
    /\ GenScored
    /\ Cardinality(DOMAIN out.value) = Cardinality(DOMAIN GenHigherIsBetter)
    /\ "rougeL_diff" \in DOMAIN out.value

---------------------------------------------------------------------------
(* Properties of the driver's calls (SpecTask).                            *)

\* C8: on the two zero-shot-only tasks fewshot_context with num_fewshot # 0
\* raises and returns no prompt, and with num_fewshot = 0 returns the default
\* context for the same doc, rnd and description.
C8_ZeroShotOnly ==
    (call.op = "fewshot_context" /\ call.task \in ZeroShotTasks) =>
        IF call.num_fewshot # 0
        THEN outcome = [raised |-> "AssertionError"]
        ELSE /\ outcome.raised = "none"
             /\ outcome = DefaultFewshotContext(call.task, call.doc, 0,
                                                call.rnd, call.description)

\* fewshot_context of TruthfulQAMultipleChoice was called with one exemplar
\* and raised.
C8_Witness ==
    /\ call.op = "fewshot_context"
    /\ call.task = "TruthfulQAMultipleChoice"
    /\ call.num_fewshot = 1
    /\ outcome.raised = "AssertionError"

\* C9: a partition accessor whose has_<partition>_docs() is false raises on
\* the call and returns nothing; one whose flag is true does not raise.
C9_UnsupportedPartitionRaises ==
    call.op = "docs" =>
        IF HasDocs(call.task, call.partition)
        THEN outcome.raised = "none"
        ELSE outcome = [raised |-> "NotImplementedError"]

\* test_docs of TriviaQA, whose has_test_docs() is false, was called and raised.
C9_Witness ==
    /\ call.op = "docs"
    /\ call.task = "TriviaQA"
    /\ call.partition = "test"
    /\ ~HasDocs("TriviaQA", "test")
    /\ outcome.raised = "NotImplementedError"

====
